---- MODULE Spec2Model ----
(***************************************************************************)
(* Model of the communication layer of the RoboEarth Cloud Engine:         *)
(* framework/comm/manager.py, the classes _Router and CommManager with the *)
(* content serializers and message processors of the manager.              *)
(*                                                                         *)
(* Every public method is one action, translated statement by statement.   *)
(* The router and the tables of the manager are only touched from the      *)
(* reactor thread, hence every method call is atomic; getMessageNr may be  *)
(* called from any thread and is modelled statement by statement.          *)
(***************************************************************************)
EXTENDS Integers, Sequences, FiniteSets, TLC

(***************************************************************************)
(* Bounds of the model.                                                    *)
(***************************************************************************)
\* Last value of the clock.  Every accepted producer is stamped with the
\* clock and the clock moves on, hence this is also the number of producers
\* of one behaviour.
MaxTime == 3

\* Number of getMessageNr calls of the threads in one behaviour.
MaxCalls == 6

(***************************************************************************)
(* comm.definition (addresses, timeout) and comm.fifo (ProducerFIFO)       *)
(***************************************************************************)
\* Connection endpoints (direct neighbours of this node).
NextHops == {"R1", "R2"}

\* Addresses for which the exempt rule of the default routing applies.
DEFAULT_EXCEMPT_ADDRS == {"N"}

\* All well-formed communication IDs of the model.
ValidAddr == NextHops \cup {"A"} \cup DEFAULT_EXCEMPT_ADDRS

\* A malformed communication ID.
InvalidAddr == {"bad"}

Addr == ValidAddr \cup InvalidAddr

\* Python's None where an address is expected.
None == "None"

validateAddress(d) == d \in ValidAddr

\* Age (in clock ticks) after which an entry of a FIFO is stale.
MSG_QUEUE_TIMEOUT == 1

\* Communication ID of this node: CommManager._commID.
commID == "Me"

\* Protocol instances; two different ones may exist for the same endpoint.
Conns == { [dest |-> "R1", id |-> 1], [dest |-> "R1", id |-> 2],
           [dest |-> "R2", id |-> 1] }

\* Placeholder where no producer is meant.
NoProducer == [origin |-> None, ts |-> 0 - 1]

\* oldestTimestamp = None
NoTimestamp == 0 - 1

\* comm.definition.MAX_INT: the message numbers are 0 .. MAX_INT - 1.
MAX_INT == 2

\* Where no message number is meant.
NoNr == 0 - 1

\* The Deferreds which the callers of sendMessage hold.
Handles == {"d1", "d2"}

\* A value which is false in Python but is not None (0, '', []), and a
\* true value which is not a Deferred.
Falsy == "falsy"
Junk == "junk"

\* What a caller hands to sendMessage as resp.
Resps == {None, Falsy, Junk} \cup Handles

\* The state of a Deferred which has not been called, and the two ways of
\* calling it.
NoResult == [how |-> "none", value |-> None]
Result(how, value) == [how |-> how, value |-> value]

\* The threads which ask for message numbers.
Threads == {"t1", "t2", "t3"}

\* The message types of comm.types which the manager knows.
STATUS == "STATUS"
ERROR == "ERROR"
ROUTE_INFO == "ROUTE_INFO"
INIT_REQUEST == "INIT_REQUEST"

\* registerContentSerializers([_InitMessage(), _StatusMessage(),
\*                             _ErrorMessage(), _RouteMessage()])
BuiltinSerializers == {INIT_REQUEST, STATUS, ERROR, ROUTE_INFO}

\* registerMessageProcessors([_StatusProcessor(self), _ErrorProcessor(self),
\*                            _RouteProcessor(self)])
BuiltinProcessors == {STATUS, ERROR, ROUTE_INFO}

\* The Container instances.
Containers == {"c1", "c2"}

VARIABLES
    connections,  \* _Router._connections: endpoint -> id of Protocol instance
    fifos,        \* _Router._fifos: destination -> sequence of entries
    routes,       \* _Router._routes: destination -> next endpoint
    dest,         \* _Router._dest: endpoint -> set of destinations
    default,      \* _Router._default: endpoint or None
    now,          \* clock which is read by ProducerFIFO.add / clean
    call,         \* the last method call of the router and its outcome
    responses,    \* CommManager._responses: message number -> Deferred
    msgNr,        \* CommManager._msgNr
    msgNrLock,    \* CommManager._msgNrLock: the thread which holds it or None
    handles,      \* the Deferreds of the callers: Deferred -> its result
    threads,      \* the callers of getMessageNr: thread -> position and nr
    issued,       \* the numbers read under the lock, in the order of reading
    mcall,        \* the last method call of the manager and its outcome
    contentSerializer, \* CommManager._contentSerializer: the types with a codec
    processors,   \* CommManager._processors: the types with a processor
    address,      \* Container._address of every container
    pending,      \* Container._pending of every container
    remote,       \* the remote call 'getPort' of every container
    deferreds     \* the Deferreds which getAddress has returned, in order

routerVars == <<connections, fifos, routes, dest, default>>
mgrVars == <<responses, msgNr, msgNrLock, handles, threads, issued, mcall>>
regVars == <<contentSerializer, processors>>
ctrVars == <<address, pending, remote, deferreds>>
vars == <<connections, fifos, routes, dest, default, now, call,
          responses, msgNr, msgNrLock, handles, threads, issued, mcall,
          contentSerializer, processors, address, pending, remote, deferreds>>

(***************************************************************************)
(* ProducerFIFO.  An entry is the producer (its origin) with the timestamp *)
(* of ProducerFIFO.add.  The clock moves on with every add, so that no two *)
(* entries carry the same timestamp.                                       *)
(***************************************************************************)
\* ProducerFIFO.add: append with the current timestamp.
fifoAdd(f, producer, t) == Append(f, [producer EXCEPT !.ts = t])

\* ProducerFIFO.pop: remove and return the oldest entry.
fifoPop(f) == [producer |-> Head(f), rest |-> Tail(f)]

\* ProducerFIFO.getTimeStamp: timestamp of the oldest entry.
getTimeStamp(f) == Head(f).ts

\* The test of ProducerFIFO.clean: the entry is older than the timeout.
Stale(e, t) == t - e.ts > MSG_QUEUE_TIMEOUT

\* ProducerFIFO.clean: discard the entries which are older than the timeout.
fifoClean(f, t) == SelectSeq(f, LAMBDA e : ~Stale(e, t))

(***************************************************************************)
(* Helpers                                                                 *)
(***************************************************************************)
\* dict[key] = value
Put(m, k, v) == [x \in DOMAIN m \cup {k} |-> IF x = k THEN v ELSE m[x]]

\* dict.pop(key, None) / del dict[key] of an existing key
Drop(m, k) == [x \in DOMAIN m \ {k} |-> m[x]]

\* All iteration orders of a set (dict.keys() / set iteration).
RECURSIVE Orders(_)
Orders(S) ==
    IF S = {} THEN { <<>> }
    ELSE UNION { { <<x>> \o s : s \in Orders(S \ {x}) } : x \in S }

\* An empty dict.
EmptyMap == [x \in {} |-> None]

\* The entries of a sequence as a set.
Range(f) == { f[i] : i \in 1..Len(f) }

\* What is recorded of a method call: the method, its address argument, the
\* Protocol instance, the branch taken, the outcome ("ok", "producer", "None"
\* or the exception), the producer handed in or out with its FIFO, the
\* entries dropped as loop-back and the connections which got requestSend().
Call(op, arg, conn, branch, res, p, from, dropped, nudged) ==
    [op |-> op, arg |-> arg, conn |-> conn, branch |-> branch, res |-> res,
     p |-> p, from |-> from, dropped |-> dropped, nudged |-> nudged]

\* What is recorded of a method call of the manager: the method, the message
\* (or its content), the response handle handed in, the branch taken, the
\* outcome ("ok" or the exception), the message number taken, the number of
\* calls of processMessage and the Deferreds which were called.
MCall(op, msg, resp, branch, res, nr, processed, resolved) ==
    [op |-> op, msg |-> msg, resp |-> resp, branch |-> branch, res |-> res,
     nr |-> nr, processed |-> processed, resolved |-> resolved]

Init ==
    /\ connections = EmptyMap
    /\ fifos = EmptyMap
    /\ routes = EmptyMap
    /\ dest = EmptyMap
    /\ default = None
    /\ now = 0
    /\ call = Call("init", None, 0, "init", "ok", NoProducer, None, {}, {})
    /\ responses = EmptyMap
    /\ msgNr = 0
    /\ msgNrLock = None
    /\ handles = [d \in Handles |-> NoResult]
    /\ threads = [t \in Threads |-> [pc |-> "idle", nr |-> NoNr]]
    /\ issued = <<>>
    /\ mcall = MCall("init", None, None, "init", "ok", NoNr, 0, {})
    /\ contentSerializer = BuiltinSerializers
    /\ processors = BuiltinProcessors
    /\ address = [c \in Containers |-> None]
    /\ pending = [c \in Containers |-> {}]
    /\ remote = [c \in Containers |-> [sent |-> 0, state |-> "none"]]
    /\ deferreds = <<>>

(***************************************************************************)
(* _Router.registerConnection                                              *)
(***************************************************************************)
\* A wrong check: a second registration replaces the first.
AlreadyRegistered_Never(d) == FALSE

\* if dest in self._connections
AlreadyRegistered(d) == d \in DOMAIN connections

\* A wrong check: a new FIFO is made whether or not there is one.
NeedsFifo_Always(d) == TRUE

\* if dest not in self._fifos (registerConnection and registerProducer)
NeedsFifo(d) == d \notin DOMAIN fifos

registerConnection(conn) ==
    LET d == conn.dest IN
    IF AlreadyRegistered(d)
    THEN /\ call' = Call("registerConnection", d, conn.id, "duplicate",
                         "InternalError", NoProducer, None, {}, {})
         /\ UNCHANGED <<connections, fifos, routes, dest, default, now>>
    ELSE /\ connections' = Put(connections, d, conn.id)
         /\ fifos' = IF NeedsFifo(d) THEN Put(fifos, d, <<>>) ELSE fifos
         /\ routes' = Put(routes, d, d)
         /\ dest' = Put(dest, d, (IF d \in DOMAIN dest THEN dest[d] ELSE {}) \cup {d})
         /\ call' = Call("registerConnection", d, conn.id, "fresh", "ok",
                         NoProducer, None, {}, {d})
         /\ UNCHANGED <<default, now>>

(***************************************************************************)
(* _Router.unregisterConnection                                            *)
(***************************************************************************)
\* A wrong removal: del self._connections[conn.dest]
DelConnection(d) ==
    IF d \in DOMAIN connections
    THEN [conns |-> Drop(connections, d), res |-> "ok"]
    ELSE [conns |-> connections, res |-> "KeyError"]

\* self._connections.pop(conn.dest, None)
PopConnection(d) == [conns |-> Drop(connections, d), res |-> "ok"]

unregisterConnection(conn) ==
    LET d == conn.dest
        r == PopConnection(d)
    IN  /\ connections' = r.conns
        /\ call' = Call("unregisterConnection", d, conn.id,
                        IF d \in DOMAIN connections THEN "registered" ELSE "absent",
                        r.res, NoProducer, None, {}, {})
        /\ UNCHANGED <<fifos, routes, dest, default, now>>

(***************************************************************************)
(* _Router.registerProducer                                                *)
(***************************************************************************)
\* A wrong check: every address is taken as valid.
AddressRejected_Never(d) == FALSE

\* if not validateAddress(dest, True)
AddressRejected(d) == ~validateAddress(d)

\* The branches of "Try to send the message": which rule resolves the route.
ResolveKind(d) ==
    IF d \in DOMAIN routes THEN "explicit"
    ELSE IF d \in DEFAULT_EXCEMPT_ADDRS THEN "exempt"
    ELSE IF default # None THEN "default"
    ELSE "unroutable"

\* The route which is nudged, None where the method returns without a nudge.
ResolveRoute(d) ==
    IF d \in DOMAIN routes THEN routes[d]
    ELSE IF d \in DEFAULT_EXCEMPT_ADDRS THEN None
    ELSE IF default # None THEN default
    ELSE None

\* A router which never asks a connection to send.
Nudge_Never(route) == {}

\* if route in self._connections: self._connections[route].requestSend()
Nudge(route) == IF route \in DOMAIN connections THEN {route} ELSE {}

\* A wrong order: the route is resolved first and a producer without a route
\* is not queued.
EnqueueIfRoutable(d, producer) ==
    IF ResolveKind(d) = "unroutable" THEN fifos
    ELSE Put(fifos, d, fifoAdd(IF NeedsFifo(d) THEN <<>> ELSE fifos[d],
                               producer, now))

\* if dest not in self._fifos: self._fifos[dest] = ProducerFIFO(dest)
\* self._fifos[dest].add(producer)
Enqueue(d, producer) ==
    Put(fifos, d, fifoAdd(IF NeedsFifo(d) THEN <<>> ELSE fifos[d],
                          producer, now))

registerProducer(origin, d) ==
    IF AddressRejected(d)
    THEN /\ call' = Call("registerProducer", d, 0, "invalid", "ok",
                         NoProducer, None, {}, {})
         /\ UNCHANGED <<connections, fifos, routes, dest, default, now>>
    ELSE /\ now < MaxTime
         /\ LET route == ResolveRoute(d)
                producer == [origin |-> origin, ts |-> now]
            IN  /\ fifos' = Enqueue(d, producer)
                /\ call' = Call("registerProducer", d, 0, ResolveKind(d), "ok",
                                producer, d, {}, Nudge(route))
         /\ now' = now + 1
         /\ UNCHANGED <<connections, routes, dest, default>>

(***************************************************************************)
(* _Router.updateRoutingInfo                                               *)
(***************************************************************************)
\* One pass of the loop "for (dest, add) in dests"; st.res # "ok" once an
\* exception left the loop.
RECURSIVE ApplyChanges(_, _, _)
ApplyChanges(route, changes, st) ==
    IF changes = <<>> \/ st.res # "ok" THEN st
    ELSE LET d == Head(changes)[1]
             add == Head(changes)[2]
             st2 ==
                IF d = None
                THEN [st EXCEPT !.default = IF add THEN route ELSE None]
                ELSE IF add
                THEN IF route \in DOMAIN st.dest
                     THEN [st EXCEPT !.routes = Put(st.routes, d, route),
                                     !.dest = Put(st.dest, route,
                                                  st.dest[route] \cup {d})]
                     ELSE [st EXCEPT !.routes = Put(st.routes, d, route),
                                     !.res = "KeyError"]
                ELSE [st EXCEPT !.routes = Drop(st.routes, d),
                                !.dest = IF route \in DOMAIN st.dest
                                         THEN Put(st.dest, route,
                                                  st.dest[route] \ {d})
                                         ELSE st.dest]
         IN  ApplyChanges(route, Tail(changes), st2)

\* The entries of a ROUTE_INFO message: a destination or None (the default
\* route) with the flag add (TRUE) / remove (FALSE).
Changes == {"A", None} \X BOOLEAN

\* The lists 'dests' handed to updateRoutingInfo: one entry, or two entries
\* for different destinations.
ChangeLists == { <<c>> : c \in Changes } \cup
               { l \in { <<c1, c2>> : c1 \in Changes, c2 \in Changes } :
                    l[1][1] # l[2][1] }

\* The lists with a single entry: one change per ROUTE_INFO message.
SingleChanges == { l \in ChangeLists : Len(l) = 1 }

updateRoutingInfo(route, changes) ==
    LET st == ApplyChanges(route, changes,
                  [routes |-> routes, dest |-> dest, default |-> default,
                   res |-> "ok"])
    IN  /\ routes' = st.routes
        /\ dest' = st.dest
        /\ default' = st.default
        /\ call' = Call("updateRoutingInfo", route, 0,
                        IF route \in DOMAIN dest THEN "known" ELSE "unknown",
                        st.res, NoProducer, None, {},
                        IF st.res = "ok" THEN Nudge(route) ELSE {})
        /\ UNCHANGED <<connections, fifos, now>>

(***************************************************************************)
(* _Router.getNextProducer                                                 *)
(***************************************************************************)
\* if route == self._default: dests = self._fifos.keys()
\* else: dests = self._dest[route]
Candidates(route) ==
    IF route = default THEN DOMAIN fifos ELSE dest[route]

\* A wrong test: no producer is taken as sent back to its origin.
IsLoopBack_Never(route, producer) == FALSE

\* if route != producer.origin: return producer, else: drop
IsLoopBack(route, producer) == route = producer.origin

\* for dest in dests: ... ; st is <<oldestFifo, oldestTimestamp>> as a record
RECURSIVE ScanDests(_, _, _)
ScanDests(order, fs, st) ==
    IF order = <<>> THEN st
    ELSE LET d == Head(order) IN
         IF d \notin DOMAIN fs THEN ScanDests(Tail(order), fs, st)
         ELSE IF Len(fs[d]) = 0 THEN ScanDests(Tail(order), fs, st)
         ELSE LET timestamp == getTimeStamp(fs[d]) IN
              IF st.oldestTimestamp = NoTimestamp
                 \/ timestamp < st.oldestTimestamp
              THEN ScanDests(Tail(order), fs,
                             [oldestFifo |-> d, oldestTimestamp |-> timestamp])
              ELSE ScanDests(Tail(order), fs, st)

\* if oldestFifo: a FIFO object is true iff its length is not 0, None is false
Truth(fs, oldestFifo) == oldestFifo # None /\ Len(fs[oldestFifo]) # 0

\* while 1: ... ; oldestFifo and oldestTimestamp are set before the loop and
\* keep their values from one pass to the next.
RECURSIVE WhileLoop(_, _, _, _, _)
WhileLoop(route, order, fs, st, dropped) ==
    LET st2 == ScanDests(order, fs, st) IN
    IF Truth(fs, st2.oldestFifo)
    THEN LET f == st2.oldestFifo
             producer == fifoPop(fs[f]).producer
             fs2 == [fs EXCEPT ![f] = fifoPop(fs[f]).rest]
         IN  IF ~IsLoopBack(route, producer)
             THEN [res |-> "producer", p |-> producer, from |-> f,
                   fifos |-> fs2, dropped |-> dropped]
             ELSE WhileLoop(route, order, fs2, st2,
                            dropped \cup {producer})
    ELSE [res |-> "None", p |-> NoProducer, from |-> None,
          fifos |-> fs, dropped |-> dropped]

getNextProducer(route) ==
    IF route # default /\ route \notin DOMAIN dest
    THEN /\ call' = Call("getNextProducer", route, 0, "unknown", "KeyError",
                         NoProducer, None, {}, {})
         /\ UNCHANGED <<connections, fifos, routes, dest, default, now>>
    ELSE \E order \in Orders(Candidates(route)) :
            LET r == WhileLoop(route, order, fifos,
                               [oldestFifo |-> None,
                                oldestTimestamp |-> NoTimestamp], {})
            IN  /\ fifos' = r.fifos
                /\ call' = Call("getNextProducer", route, 0,
                                IF route = default THEN "default" ELSE "served",
                                r.res, r.p, r.from, r.dropped, {})
                /\ UNCHANGED <<connections, routes, dest, default, now>>

(***************************************************************************)
(* _Router._clean and the clock                                            *)
(***************************************************************************)
\* A wrong sweep: a FIFO which is empty after the sweep is deleted.
clean_DropEmpty ==
    /\ fifos' = [d \in { x \in DOMAIN fifos : fifoClean(fifos[x], now) # <<>> }
                    |-> fifoClean(fifos[d], now)]
    /\ call' = Call("clean", None, 0, "clean", "ok", NoProducer, None, {}, {})
    /\ UNCHANGED <<connections, routes, dest, default, now>>

\* for fifo in self._fifos.itervalues(): fifo.clean()
clean ==
    /\ fifos' = [d \in DOMAIN fifos |-> fifoClean(fifos[d], now)]
    /\ call' = Call("clean", None, 0, "clean", "ok", NoProducer, None, {}, {})
    /\ UNCHANGED <<connections, routes, dest, default, now>>

\* Time passes between two calls.
Tick ==
    /\ now < MaxTime
    /\ now' = now + 1
    /\ call' = Call("tick", None, 0, "tick", "ok", NoProducer, None, {}, {})
    /\ UNCHANGED <<connections, fifos, routes, dest, default>>

(***************************************************************************)
(* CommManager.getMessageNr, statement by statement: the callers are       *)
(* threads, which may be anywhere in the method at the same time.          *)
(***************************************************************************)
\* A wrong lock: it is taken whether or not another thread holds it.
LockFree_Always == TRUE

\* with self._msgNrLock: the caller gets the lock when no thread holds it
LockFree == msgNrLock = None

\* getMessageNr touches nothing but the counter and its lock.
NrFrame ==
    UNCHANGED <<connections, fifos, routes, dest, default, now, call,
                responses, handles, regVars, ctrVars>>

\* with self._msgNrLock:
Acquire(t) ==
    /\ threads[t].pc = "idle"
    /\ Len(issued) < MaxCalls
    /\ LockFree
    /\ msgNrLock' = t
    /\ threads' = [threads EXCEPT ![t].pc = "read"]
    /\ UNCHANGED <<msgNr, issued, mcall>>
    /\ NrFrame

\* nr = self._msgNr
ReadNr(t) ==
    /\ threads[t].pc = "read"
    /\ threads' = [threads EXCEPT ![t] = [pc |-> "write", nr |-> msgNr]]
    /\ issued' = Append(issued, msgNr)
    /\ UNCHANGED <<msgNr, msgNrLock, mcall>>
    /\ NrFrame

\* self._msgNr = (self._msgNr + 1) % definition.MAX_INT
WriteNr(t) ==
    /\ threads[t].pc = "write"
    /\ msgNr' = (msgNr + 1) % MAX_INT
    /\ threads' = [threads EXCEPT ![t].pc = "release"]
    /\ UNCHANGED <<msgNrLock, issued, mcall>>
    /\ NrFrame

\* The end of the with block and "return nr".
ReleaseAndReturn(t) ==
    /\ threads[t].pc = "release"
    /\ msgNrLock' = None
    /\ threads' = [threads EXCEPT ![t] = [pc |-> "idle", nr |-> NoNr]]
    /\ mcall' = MCall("getMessageNr", t, None, "thread", "ok",
                      threads[t].nr, 0, {})
    /\ UNCHANGED <<msgNr, issued>>
    /\ NrFrame

\* One statement of getMessageNr in some thread.
getMessageNr(t) ==
    \/ Acquire(t)
    \/ ReadNr(t)
    \/ WriteNr(t)
    \/ ReleaseAndReturn(t)

(***************************************************************************)
(* Messages: comm.types and the content serializers of the manager.        *)
(***************************************************************************)

\* The text of a status or error message.
Values == {"v"}

\* Message numbers.
Nrs == 0..(MAX_INT - 1)

\* The content of a status or error message as processStatusMessage and
\* processErrorMessage read it (keys 'nr', 'msg') and as _StatusMessage and
\* _ErrorMessage write and read it (keys 'msg', 'id').
NrContents == { [nr |-> n, msg |-> v] : n \in Nrs, v \in Values }
IdContents == { [id |-> n, msg |-> v] : n \in Nrs, v \in Values }

\* The content of an init message: a dict with the list 'data', or without.
InitContents == { [data |-> <<>>], [info |-> <<>>] }

Message(d, origin, msgType, content) ==
    [dest |-> d, origin |-> origin, msgType |-> msgType, content |-> content]

\* A wrong serializer: no content is refused.
Serializes_Always(msg) == TRUE

\* msg.serialize(self): TRUE unless the serializer of the message type
\* raises SerializationError for the content.
Serializes(msg) ==
    /\ msg.msgType \in contentSerializer
    /\ CASE msg.msgType = INIT_REQUEST -> "data" \in DOMAIN msg.content
         [] msg.msgType \in {STATUS, ERROR} ->
               {"msg", "id"} \subseteq DOMAIN msg.content
         [] msg.msgType = ROUTE_INFO ->
               \A i \in DOMAIN msg.content : Len(msg.content[i]) = 2
         [] OTHER -> FALSE

(***************************************************************************)
(* CommManager.processStatusMessage / processErrorMessage                  *)
(***************************************************************************)
\* deferred = self._responses.pop(msg['nr'], None)
PopResponse(rs, nr) ==
    [deferred |-> IF nr \in DOMAIN rs THEN rs[nr] ELSE None,
     responses |-> Drop(rs, nr)]

\* The body of processStatusMessage (how = "callback") and of
\* processErrorMessage (how = "errback") on the pending table rs and the
\* Deferreds hs.  A Deferred which has been called raises AlreadyCalledError
\* when it is called again.
Respond(content, how, rs, hs) ==
    IF "nr" \notin DOMAIN content
    THEN [responses |-> rs, handles |-> hs, res |-> "KeyError",
          resolved |-> {}]
    ELSE LET r == PopResponse(rs, content.nr) IN
         IF r.deferred = None
         THEN [responses |-> r.responses, handles |-> hs, res |-> "ok",
               resolved |-> {}]
         ELSE IF "msg" \notin DOMAIN content
         THEN [responses |-> r.responses, handles |-> hs, res |-> "KeyError",
               resolved |-> {}]
         ELSE IF hs[r.deferred] # NoResult
         THEN [responses |-> r.responses, handles |-> hs,
               res |-> "AlreadyCalledError", resolved |-> {}]
         ELSE [responses |-> r.responses,
               handles |-> [hs EXCEPT ![r.deferred] = Result(how, content.msg)],
               res |-> "ok", resolved |-> {r.deferred}]

\* Which case of the lookup a content meets.
RespondBranch(content) ==
    IF "nr" \notin DOMAIN content THEN "nokey"
    ELSE IF content.nr \in DOMAIN responses THEN "pending" ELSE "absent"

\* What the content names as message number.
NrOf(content) == IF "nr" \in DOMAIN content THEN content.nr ELSE NoNr

processStatusMessage(content) ==
    LET r == Respond(content, "callback", responses, handles) IN
    /\ responses' = r.responses
    /\ handles' = r.handles
    /\ mcall' = MCall("processStatusMessage", content, None,
                      RespondBranch(content), r.res, NrOf(content), 0,
                      r.resolved)
    /\ UNCHANGED <<connections, fifos, routes, dest, default, now, call,
                   msgNr, msgNrLock, threads, issued, regVars, ctrVars>>

processErrorMessage(content) ==
    LET r == Respond(content, "errback", responses, handles) IN
    /\ responses' = r.responses
    /\ handles' = r.handles
    /\ mcall' = MCall("processErrorMessage", content, None,
                      RespondBranch(content), r.res, NrOf(content), 0,
                      r.resolved)
    /\ UNCHANGED <<connections, fifos, routes, dest, default, now, call,
                   msgNr, msgNrLock, threads, issued, regVars, ctrVars>>

(***************************************************************************)
(* CommManager.processMessage with the processors of the manager           *)
(***************************************************************************)
\* The outcome of processMessage: of the processor of the message type, or
\* of the log entry where there is none.
DispatchRes(msg) ==
    CASE msg.msgType \notin processors ->
            [responses |-> responses, handles |-> handles, resolved |-> {},
             res |-> "ok"]
      [] msg.msgType = STATUS ->
            Respond(msg.content, "callback", responses, handles)
      [] msg.msgType = ERROR ->
            Respond(msg.content, "errback", responses, handles)
      [] msg.msgType = ROUTE_INFO ->
            [responses |-> responses, handles |-> handles, resolved |-> {},
             res |-> ApplyChanges(msg.origin, msg.content,
                        [routes |-> routes, dest |-> dest,
                         default |-> default, res |-> "ok"]).res]
      [] OTHER ->
            [responses |-> responses, handles |-> handles, resolved |-> {},
             res |-> "ok"]

\* if msg.msgType in self._processors:
\*     self._processors[msg.msgType].processMessage(msg, resp)
Dispatch(msg) ==
    /\ responses' = DispatchRes(msg).responses
    /\ handles' = DispatchRes(msg).handles
    /\ IF msg.msgType = ROUTE_INFO /\ msg.msgType \in processors
       THEN updateRoutingInfo(msg.origin, msg.content)
       ELSE UNCHANGED <<connections, fifos, routes, dest, default, now, call>>

\* A message which has been received and decoded is processed.
processMessage(msg) ==
    /\ Dispatch(msg)
    /\ mcall' = MCall("processMessage", msg, None, msg.msgType,
                      DispatchRes(msg).res, NoNr, 1, DispatchRes(msg).resolved)
    /\ UNCHANGED <<msgNr, msgNrLock, threads, issued, regVars, ctrVars>>

(***************************************************************************)
(* CommManager.sendMessage                                                 *)
(***************************************************************************)
\* The truth value of resp: None and the empty values are false.
Truthy(resp) == resp \notin {None, Falsy}

\* if resp and not isinstance(resp, Deferred)
BadHandle(resp) == Truthy(resp) /\ resp \notin Handles

\* A wrong check: no message is taken as a message to this node.
ToMyself_Never(msg) == FALSE

\* if msg.dest == self._commID
ToMyself(msg) == msg.dest = commID

\* A wrong check: a pending handle is overwritten.
NrPending_Never(nr) == FALSE

\* if nr in self._responses
NrPending(nr) == nr \in DOMAIN responses

\* send(self, buf, msg.dest) of comm.handler: the buffer becomes a producer
\* of this node which is registered with the router.
send(d) == registerProducer(commID, d)

sendMessage(msg, resp) ==
    /\ UNCHANGED <<regVars, ctrVars>>
    /\ IF BadHandle(resp)
       THEN /\ mcall' = MCall("sendMessage", msg, resp, "badhandle",
                              "InternalError", NoNr, 0, {})
            /\ UNCHANGED <<connections, fifos, routes, dest, default, now, call,
                           responses, msgNr, msgNrLock, handles, threads, issued>>
       ELSE IF ToMyself(msg)
       THEN /\ Dispatch(msg)
            /\ mcall' = MCall("sendMessage", msg, resp, "loopback",
                              DispatchRes(msg).res, NoNr, 1,
                              DispatchRes(msg).resolved)
            /\ UNCHANGED <<msgNr, msgNrLock, threads, issued>>
       ELSE IF Truthy(resp) /\ NrPending(msgNr)
       THEN /\ LockFree
            /\ msgNr' = (msgNr + 1) % MAX_INT
            /\ mcall' = MCall("sendMessage", msg, resp, "collision",
                              "InternalError", msgNr, 0, {})
            /\ UNCHANGED <<connections, fifos, routes, dest, default, now, call,
                           responses, msgNrLock, handles, threads, issued>>
       ELSE /\ Truthy(resp) => LockFree
            /\ msgNr' = IF Truthy(resp) THEN (msgNr + 1) % MAX_INT ELSE msgNr
            /\ responses' = IF Truthy(resp) THEN Put(responses, msgNr, resp)
                            ELSE responses
            /\ IF Serializes(msg)
               THEN send(msg.dest)
               ELSE UNCHANGED <<connections, fifos, routes, dest, default, now,
                                call>>
            /\ mcall' = MCall("sendMessage", msg, resp,
                              IF Serializes(msg) THEN "sent" ELSE "unserializable",
                              "ok", IF Truthy(resp) THEN msgNr ELSE NoNr, 0, {})
            /\ UNCHANGED <<msgNrLock, handles, threads, issued>>

(***************************************************************************)
(* The codecs of STATUS and ERROR, and a message which arrives              *)
(***************************************************************************)
\* _StatusMessage.serialize / _ErrorMessage.serialize:
\* s.addElement(msg['msg']); s.addInt(msg['id'])
serialize(content) == <<content.msg, content.id>>

\* _StatusMessage.deserialize / _ErrorMessage.deserialize:
\* return { 'msg' : s.getElement(), 'id' : s.getInt() }
deserialize(buf) == [msg |-> buf[1], id |-> buf[2]]

\* The buffers of the STATUS and ERROR messages on the wire.
Bufs == { serialize(c) : c \in IdContents }

\* A STATUS or ERROR message for this node arrives from the neighbour R1:
\* its content is decoded by the codec which is registered for its type and
\* the message is handed to processMessage.  Without a codec the content
\* can not be decoded and the manager is not called.
messageReceived(msgType, buf) ==
    /\ msgType \in contentSerializer
    /\ processMessage(Message(commID, "R1", msgType, deserialize(buf)))

(***************************************************************************)
(* CommManager.shutdown                                                    *)
(***************************************************************************)
\* A wrong shutdown: the pending Deferreds are kept.
ClearedResponses_Kept == responses

\* self._responses = {}
ClearedResponses == EmptyMap

\* self._contentSerializer = {}; self._processors = {}; self._responses = {}
shutdown ==
    /\ contentSerializer' = {}
    /\ processors' = {}
    /\ responses' = ClearedResponses
    /\ mcall' = MCall("shutdown", None, None,
                      IF processors = {} THEN "again" ELSE "first",
                      "ok", NoNr, 0, {})
    /\ UNCHANGED <<connections, fifos, routes, dest, default, now, call,
                   msgNr, msgNrLock, handles, threads, issued, ctrVars>>

(***************************************************************************)
(* Container.getAddress.  The Deferreds which getAddress returns are the   *)
(* entries of 'deferreds'; _pending holds their positions.                 *)
(***************************************************************************)
\* What the Deferred of callRemote('getPort') ends with after the callback
\* which builds the IPv4Address: the address, or a Failure.
Replies == {"addr", "failure"}

\* When that Deferred fires: after getAddress has returned ("later"), or
\* before addBoth(cb) is called, with one of the replies.
Timings == {"later"} \cup Replies

\* d = Deferred()
NewDeferred(c) == [of |-> c, fired |-> 0, result |-> None]

\* succeed(self._address)
Succeeded(c, result) == [of |-> c, fired |-> 1, result |-> result]

\* def cb(result): self._address = result
\*                 for p in self._pending: p.callback(result)
\*                 self._pending = set()
cb(result, pend, ds) ==
    [address |-> result,
     pending |-> {},
     deferreds |-> [i \in DOMAIN ds |->
                      IF i \in pend
                      THEN [ds[i] EXCEPT !.fired = @ + 1, !.result = result]
                      ELSE ds[i]]]

\* getAddress of container c; timing says when the remote call completes
\* if this call dispatches it.
getAddress(c, timing) ==
    /\ Len(deferreds) < MaxCalls
    /\ IF address[c] = None
       THEN LET dispatch == pending[c] = {}
                fired == dispatch /\ timing # "later"
                \* addr.addBoth(cb) on a Deferred which has fired runs cb
                \* at once, before d is created
                st == IF fired
                      THEN cb(timing, pending[c], deferreds)
                      ELSE [address |-> address[c], pending |-> pending[c],
                            deferreds |-> deferreds]
                d == Len(deferreds) + 1
            IN  /\ dispatch \/ timing = "later"
                /\ remote' = IF dispatch
                             THEN [remote EXCEPT ![c] =
                                     [sent |-> @.sent + 1,
                                      state |-> IF fired THEN "done"
                                                ELSE "inflight"]]
                             ELSE remote
                /\ address' = [address EXCEPT ![c] = st.address]
                /\ pending' = [pending EXCEPT ![c] = st.pending \cup {d}]
                /\ deferreds' = Append(st.deferreds, NewDeferred(c))
       ELSE /\ timing = "later"
            /\ deferreds' = Append(deferreds, Succeeded(c, address[c]))
            /\ UNCHANGED <<address, pending, remote>>
    /\ UNCHANGED <<connections, fifos, routes, dest, default, now, call,
                   mgrVars, regVars>>

\* The remote call of container c completes after getAddress has returned:
\* the reactor runs cb with the reply.
getPortReplied(c, reply) ==
    /\ remote[c].state = "inflight"
    /\ LET st == cb(reply, pending[c], deferreds) IN
       /\ address' = [address EXCEPT ![c] = st.address]
       /\ pending' = [pending EXCEPT ![c] = st.pending]
       /\ deferreds' = st.deferreds
    /\ remote' = [remote EXCEPT ![c].state = "done"]
    /\ UNCHANGED <<connections, fifos, routes, dest, default, now, call,
                   mgrVars, regVars>>

(***************************************************************************)
(* The calls of one node with a single neighbour R1: its Protocol          *)
(* instances, the ROUTE_INFO messages it sends, the producers for the      *)
(* neighbour itself, for a remote node A, for the exempt address N and for *)
(* a malformed address, sent by this node or forwarded from R1.  A         *)
(* Protocol instance asks for producers while it is registered.  The       *)
(* ROUTE_INFO messages carry one change each; a message with two changes   *)
(* leads to the state which two messages with one change lead to.         *)
(***************************************************************************)
Neighbours == {"R1"}

\* The registered Protocol instance of an endpoint is ready for the next
\* frame: getNextProducer(route=self.dest).
ConnectionReady(route) ==
    /\ route \in DOMAIN connections
    /\ getNextProducer(route)

\* The router on its own: no message is sent or received by the manager.
Next ==
    \/ /\ \E conn \in { c \in Conns : c.dest \in Neighbours } :
             registerConnection(conn)
       /\ UNCHANGED <<mgrVars, regVars, ctrVars>>
    \/ /\ \E conn \in { c \in Conns : c.dest \in Neighbours } :
             unregisterConnection(conn)
       /\ UNCHANGED <<mgrVars, regVars, ctrVars>>
    \/ /\ \E origin \in Neighbours \cup {commID},
             d \in Neighbours \cup {"A"} \cup DEFAULT_EXCEMPT_ADDRS \cup InvalidAddr :
             registerProducer(origin, d)
       /\ UNCHANGED <<mgrVars, regVars, ctrVars>>
    \/ /\ \E route \in Neighbours, changes \in SingleChanges :
             updateRoutingInfo(route, changes)
       /\ UNCHANGED <<mgrVars, regVars, ctrVars>>
    \/ /\ \E route \in Neighbours : ConnectionReady(route)
       /\ UNCHANGED <<mgrVars, regVars, ctrVars>>
    \/ /\ clean
       /\ UNCHANGED <<mgrVars, regVars, ctrVars>>
    \/ /\ Tick
       /\ UNCHANGED <<mgrVars, regVars, ctrVars>>

Spec == Init /\ [][Next]_vars

(***************************************************************************)
(* The threads of one node which ask for message numbers at the same time. *)
(***************************************************************************)
NrNext ==
    \/ \E t \in Threads : Acquire(t)
    \/ \E t \in Threads : ReadNr(t)
    \/ \E t \in Threads : WriteNr(t)
    \/ \E t \in Threads : ReleaseAndReturn(t)

NrSpec == Init /\ [][NrNext]_vars

(***************************************************************************)
(* The manager of one node: the messages which the node sends to itself    *)
(* and to the remote node A, with and without response handle, and the     *)
(* status and error messages which are handed to the manager.              *)
(***************************************************************************)
\* The contents of the status and error messages of the model: every
\* content with the key 'nr', one with the key 'id'.
Contents == NrContents \cup { c \in IdContents : c.id = 0 }

\* The messages handed to sendMessage: to this node itself and to A.
SentMsgs ==
    { Message(commID, commID, STATUS, c) : c \in Contents } \cup
    { Message(commID, commID, INIT_REQUEST, [data |-> <<>>]),
      Message(commID, commID, ROUTE_INFO, <<<<"A", TRUE>>>>) } \cup
    { Message("A", commID, INIT_REQUEST, c) : c \in InitContents } \cup
    { Message("A", commID, STATUS, c) : c \in IdContents \ Contents }

MgrNext ==
    \/ \E msg \in SentMsgs, resp \in Resps : sendMessage(msg, resp)
    \/ \E content \in Contents : processStatusMessage(content)
    \/ \E content \in Contents : processErrorMessage(content)

ManagerSpec == Init /\ [][MgrNext]_vars

(***************************************************************************)
(* The manager of a node until and after its shutdown: messages with a     *)
(* Deferred are sent to R1, STATUS and ERROR messages arrive, either with  *)
(* the content processStatusMessage reads or as the codec decodes them,    *)
(* a STATUS message is sent to the node itself, and the manager is shut    *)
(* down (Master.py registers shutdown as a trigger of the reactor).        *)
(***************************************************************************)
\* The messages which are sent.
OutMsgs ==
    { Message("R1", commID, INIT_REQUEST, [data |-> <<>>]) } \cup
    { Message(commID, commID, STATUS, c) : c \in NrContents }

\* The STATUS and ERROR messages which arrive with the key 'nr'.
InMsgs ==
    { Message(commID, "R1", t, c) : t \in {STATUS, ERROR}, c \in NrContents }

InboundNext ==
    \/ \E msg \in OutMsgs, resp \in Handles \cup {None} :
            sendMessage(msg, resp)
    \/ \E msg \in InMsgs : processMessage(msg)
    \/ \E t \in {STATUS, ERROR}, buf \in Bufs : messageReceived(t, buf)
    \/ shutdown

InboundSpec == Init /\ [][InboundNext]_vars

(***************************************************************************)
(* The callers of getAddress of two containers and the replies of the      *)
(* remote calls.                                                           *)
(***************************************************************************)
ContainerNext ==
    \/ \E c \in Containers, timing \in Timings : getAddress(c, timing)
    \/ \E c \in Containers, reply \in Replies : getPortReplied(c, reply)

ContainerSpec == Init /\ [][ContainerNext]_vars

(***************************************************************************)
(* The routing of one node with the two neighbours R1 and R2: their        *)
(* Protocol instances and the ROUTE_INFO messages which arrive from a      *)
(* neighbour while its connection is registered.                           *)
(***************************************************************************)
\* The routing messages of the neighbours.
RouteMsgs ==
    { Message(commID, r, ROUTE_INFO, l) : r \in NextHops, l \in ChangeLists }

\* A routing message of a connected neighbour is received and processed:
\* _RouteProcessor.processMessage.
RouteInfoReceived(msg) ==
    /\ msg.origin \in DOMAIN connections
    /\ processMessage(msg)

RoutingNext ==
    \/ /\ \E conn \in Conns : registerConnection(conn)
       /\ UNCHANGED <<mgrVars, regVars, ctrVars>>
    \/ /\ \E conn \in Conns : unregisterConnection(conn)
       /\ UNCHANGED <<mgrVars, regVars, ctrVars>>
    \/ \E msg \in RouteMsgs : RouteInfoReceived(msg)

RoutingSpec == Init /\ [][RoutingNext]_vars

\* A routing message whose origin has no connection to this node (the
\* message was relayed over another hop, or the connection is gone) is
\* processed: _RouteProcessor.processMessage takes msg.origin as the route.
RouteInfoRelayed(msg) ==
    /\ msg.origin \notin DOMAIN connections
    /\ processMessage(msg)

RelayNext ==
    \/ /\ \E conn \in Conns : registerConnection(conn)
       /\ UNCHANGED <<mgrVars, regVars, ctrVars>>
    \/ /\ \E conn \in Conns : unregisterConnection(conn)
       /\ UNCHANGED <<mgrVars, regVars, ctrVars>>
    \/ \E msg \in RouteMsgs : RouteInfoReceived(msg)
    \/ \E msg \in RouteMsgs : RouteInfoRelayed(msg)

\* The routing of a node which also receives routing messages of nodes
\* which are not connected to it.
RelaySpec == Init /\ [][RelayNext]_vars

(***************************************************************************)
(* Properties                                                              *)
(***************************************************************************)
\* The FIFO of a destination, empty where there is none yet.
FifoOf(fs, d) == IF d \in DOMAIN fs THEN fs[d] ELSE <<>>

\* Some candidate FIFO of the route holds a producer.
HasWork(route) == \E d \in Candidates(route) : FifoOf(fifos, d) # <<>>

\* The calls which do not touch the content of a FIFO.
QueueNeutral ==
    {"registerConnection", "unregisterConnection", "updateRoutingInfo", "tick"}

\* One step of C1.
C1_FifoOrderStep ==
    /\ (call'.op = "registerProducer" /\ call'.branch # "invalid") =>
          /\ fifos'[call'.arg] = Append(FifoOf(fifos, call'.arg), call'.p)
          /\ \A d \in DOMAIN fifos \ {call'.arg} : fifos'[d] = fifos[d]
    /\ (call'.op = "getNextProducer" /\ call'.res = "producer") =>
          LET f == fifos[call'.from] IN
          /\ \E k \in 1..Len(f) :
                /\ f[k] = call'.p
                /\ \A j \in 1..(k - 1) : f[j] \in call'.dropped
                /\ fifos'[call'.from] = SubSeq(f, k + 1, Len(f))
          /\ \A e \in Range(fifos'[call'.from]) : e.ts > call'.p.ts
    /\ (call'.op = "getNextProducer" /\ call'.res # "KeyError"
            /\ ~HasWork(call'.arg)) =>
          /\ call'.res = "None"
          /\ fifos' = fifos
    /\ call'.op \in QueueNeutral =>
          \A d \in DOMAIN fifos : d \in DOMAIN fifos' /\ fifos'[d] = fifos[d]

\* C1: for every destination the producers leave the FIFO in the order in
\* which registerProducer queued them: an accepted producer is appended at
\* the tail of the FIFO of its destination, a returned producer was in front
\* of every other producer of its FIFO except the loop-back entries dropped
\* by the same call, exactly these and the returned one are removed, no
\* other call than clean changes the content of a FIFO, and getNextProducer
\* returns None when no candidate FIFO holds a producer.
C1_FifoOrder == [][C1_FifoOrderStep]_vars

\* Witness C1: getNextProducer returned the oldest producer of a FIFO which
\* holds younger producers, without dropping any.
C1_Witness ==
    /\ call.op = "getNextProducer"
    /\ call.res = "producer"
    /\ call.dropped = {}
    /\ fifos[call.from] # <<>>
    /\ Head(fifos[call.from]).ts > call.p.ts

\* C2 (as claimed): a returned producer is older than or as old as the
\* oldest entry of every other candidate FIFO at the moment of its pop, also
\* when loop-back entries were dropped before in the same call.
C2_OldestFirst ==
    (call.op = "getNextProducer" /\ call.res = "producer") =>
        /\ call.from \in Candidates(call.arg)
        /\ \A e \in Range(fifos[call.from]) : call.p.ts <= e.ts
        /\ \A d \in Candidates(call.arg) \ {call.from} :
              FifoOf(fifos, d) # <<>> => call.p.ts <= Head(fifos[d]).ts

\* C3: getNextProducer never returns a producer whose origin is the route,
\* and every entry it drops is such a producer and is in no FIFO afterwards.
C3_NoLoopBack ==
    call.op = "getNextProducer" =>
        /\ call.res = "producer" => call.p.origin # call.arg
        /\ \A e \in call.dropped :
              /\ e.origin = call.arg
              /\ \A d \in DOMAIN fifos : e \notin Range(fifos[d])

\* Witness C3: a call dropped a loop-back entry and returned a producer.
C3_Witness ==
    /\ call.op = "getNextProducer"
    /\ call.res = "producer"
    /\ call.dropped # {}

\* C4 (as claimed): after getNextProducer returned None every candidate FIFO
\* of the route is empty.
C4_NoneOnlyWhenExhausted ==
    (call.op = "getNextProducer" /\ call.res = "None") =>
        \A d \in Candidates(call.arg) : FifoOf(fifos, d) = <<>>

\* One step of C5.
C5_DefaultStep ==
    (/\ call.op = "registerProducer"
     /\ call.branch = "default"
     /\ call.p.origin # default
     /\ call'.op = "getNextProducer"
     /\ call'.arg = default) => call'.res # "None"

\* C5 (as claimed): a producer which is registered through the default
\* branch (valid destination without routing entry, default route R active)
\* and whose origin is not R is queued work of R: the getNextProducer(R)
\* which follows does not report "no work".
C5_DefaultFallback == [][C5_DefaultStep]_vars

\* One step of C6.
C6_DuplicateStep ==
    (call'.op = "registerConnection" /\ call'.arg \in DOMAIN connections) =>
        /\ call'.res = "InternalError"
        /\ UNCHANGED routerVars

\* C6: registerConnection for an endpoint which has a registered connection
\* raises InternalError and leaves the router as it is; the connection which
\* was registered before stays.
C6_DuplicateConnection == [][C6_DuplicateStep]_vars

\* Witness C6: another Protocol instance for a registered endpoint was
\* rejected while producers are queued.
C6_Witness ==
    /\ call.op = "registerConnection"
    /\ call.res = "InternalError"
    /\ connections[call.arg] # call.conn
    /\ fifos[call.arg] # <<>>

\* One step of C7.
C7_UnregisterStep ==
    call'.op = "unregisterConnection" =>
        /\ call'.res = "ok"
        /\ connections' = Drop(connections, call'.arg)
        /\ UNCHANGED <<fifos, routes, dest, default>>

\* C7: unregisterConnection removes the connection of conn.dest and nothing
\* else, and does not raise, whether or not there is a connection.
C7_UnregisterOnlyConnection == [][C7_UnregisterStep]_vars

\* Witness C7: unregisterConnection was called for an endpoint without a
\* connection whose route and queued producers are still there.
C7_Witness ==
    /\ call.op = "unregisterConnection"
    /\ call.branch = "absent"
    /\ call.arg \in DOMAIN routes
    /\ fifos[call.arg] # <<>>

\* One step of C8.
C8_InvalidStep ==
    (call'.op = "registerProducer" /\ ~validateAddress(call'.arg)) =>
        /\ call'.res = "ok"
        /\ call'.nudged = {}
        /\ UNCHANGED routerVars

\* C8: registerProducer with an address which does not validate does not
\* raise, nudges no connection and leaves the router as it is.
C8_InvalidAddress == [][C8_InvalidStep]_vars

\* Witness C8: a malformed address was rejected while a connection is
\* registered, and there is no FIFO for it.
C8_Witness ==
    /\ call.op = "registerProducer"
    /\ call.arg \in InvalidAddr
    /\ connections # EmptyMap
    /\ call.arg \notin DOMAIN fifos

\* C9 (as claimed): a producer registered for a valid, non-exempt destination
\* without routing entry while there is no default route is in no FIFO.
C9_UnroutableDropped ==
    (call.op = "registerProducer" /\ call.branch = "unroutable") =>
        \A d \in DOMAIN fifos : call.p \notin Range(fifos[d])

\* One step of C9.
C9_UnroutableStep ==
    (/\ call'.op = "registerProducer"
     /\ validateAddress(call'.arg)
     /\ call'.arg \notin DEFAULT_EXCEMPT_ADDRS
     /\ call'.arg \notin DOMAIN routes
     /\ default = None) =>
        /\ call'.res = "ok"
        /\ call'.nudged = {}
        /\ call'.p.ts = now
        /\ fifos' = Put(fifos, call'.arg,
                        Append(FifoOf(fifos, call'.arg), call'.p))
        /\ UNCHANGED <<connections, routes, dest, default>>

\* C9 (amended): such a producer is appended to the FIFO of its destination,
\* which is created if needed; no connection is nudged, nothing is raised
\* and the connections and the routing are unchanged.
C9_UnroutableQueued == [][C9_UnroutableStep]_vars

\* Witness C9: the producer of an unroutable destination is queued behind
\* an older one.
C9_Witness ==
    /\ call.op = "registerProducer"
    /\ call.branch = "unroutable"
    /\ Len(fifos[call.arg]) > 1
    /\ fifos[call.arg][Len(fifos[call.arg])] = call.p

\* C10 (as claimed): getNextProducer of the default route never returns a
\* producer of the FIFO of an exempt address without routing entry.
C10_ExemptBypassesDefault ==
    ~(/\ call.op = "getNextProducer"
      /\ call.arg = default
      /\ call.res = "producer"
      /\ call.from \in DEFAULT_EXCEMPT_ADDRS
      /\ call.from \notin DOMAIN routes)

\* C15: under every interleaving of the threads the numbers which the calls
\* of getMessageNr take are, in the order in which the calls hold the lock,
\* 0, 1, 2, ... modulo MAX_INT: none is skipped, no two of MAX_INT calls in
\* a row take the same number, a call returns the number it took, and the
\* counter is the number which the next call takes.
C15_ConsecutiveNumbers ==
    /\ \A i \in 1..Len(issued) : issued[i] = (i - 1) % MAX_INT
    /\ \A i, j \in 1..Len(issued) :
          (i < j /\ j < i + MAX_INT) => issued[i] # issued[j]
    /\ \A t \in Threads :
          /\ threads[t].pc \in {"write", "release"} =>
                threads[t].nr = issued[Len(issued)]
          /\ threads[t].pc = "write" => msgNr = threads[t].nr
          /\ threads[t].pc = "release" => msgNr = (threads[t].nr + 1) % MAX_INT
    /\ (\A t \in Threads : threads[t].pc \in {"idle", "read"}) =>
          msgNr = Len(issued) % MAX_INT

\* Witness C15: the counter has wrapped around, a thread holds a number
\* which was taken before, and another thread has returned its number.
C15_Witness ==
    /\ Len(issued) > MAX_INT
    /\ mcall.op = "getMessageNr"
    /\ \E t \in Threads :
          /\ threads[t].pc = "release"
          /\ mcall.msg # t
          /\ \E i \in 1..(Len(issued) - 1) : issued[i] = threads[t].nr
    /\ \E t \in Threads : threads[t].pc = "idle" /\ t # mcall.msg

\* The router and the clock as sendMessage may change them.
sendVars == <<connections, fifos, routes, dest, default, now>>

\* The calls which hand a status or an error message to the manager.
RespondOps == {"processStatusMessage", "processErrorMessage"}

\* How the method of RespondOps calls the Deferred.
HowOf(op) == IF op = "processStatusMessage" THEN "callback" ELSE "errback"

\* One step of C14.
C14_ResolvedStep ==
    (mcall'.op \in RespondOps /\ "nr" \in DOMAIN mcall'.msg) =>
        LET nr == mcall'.msg.nr IN
        IF nr \in DOMAIN responses
        THEN /\ mcall'.res = "ok"
             /\ mcall'.resolved = {responses[nr]}
             /\ handles' = [handles EXCEPT ![responses[nr]] =
                               Result(HowOf(mcall'.op), mcall'.msg.msg)]
             /\ responses' = Drop(responses, nr)
        ELSE /\ mcall'.res = "ok"
             /\ mcall'.resolved = {}
             /\ UNCHANGED <<responses, handles>>

\* C14 (as claimed): the first status or error message which carries the
\* number N of a registered handle resolves that handle (callback or errback
\* with the text of the message) and removes the pending entry; a message
\* whose number is not pending, as every later message with the number N,
\* changes nothing and resolves nothing.
C14_ResolvedExactlyOnce == [][C14_ResolvedStep]_vars

\* One step of C16.
C16_CollisionStep ==
    (/\ mcall'.op = "sendMessage"
     /\ mcall'.resp \in Handles
     /\ mcall'.msg.dest # commID
     /\ msgNr \in DOMAIN responses) =>
        /\ mcall'.res = "InternalError"
        /\ mcall'.nr = msgNr
        /\ UNCHANGED <<responses, handles>>
        /\ UNCHANGED sendVars

\* C16: when the number which sendMessage takes for a response handle is
\* still pending, the call raises InternalError, the pending table is as
\* before (the handle registered under the number stays) and no producer is
\* registered with the router.
C16_NoOverwrite == [][C16_CollisionStep]_vars

\* Witness C16: the counter has wrapped around to the number of another
\* handle which is still pending, and the call was refused.
C16_Witness ==
    /\ mcall.op = "sendMessage"
    /\ mcall.res = "InternalError"
    /\ mcall.resp \in Handles
    /\ mcall.nr \in DOMAIN responses
    /\ responses[mcall.nr] # mcall.resp
    /\ msgNr # 0

\* The contents of the model which no serializer accepts.
Malformed(msg) ==
    \/ msg.msgType = INIT_REQUEST /\ msg.content = [info |-> <<>>]
    \/ msg.msgType \in {STATUS, ERROR} /\ msg.content \in NrContents

\* One step of C17.
C17_SerializationStep ==
    (/\ mcall'.op = "sendMessage"
     /\ mcall'.resp \in {None} \cup Handles
     /\ mcall'.msg.dest # commID
     /\ Malformed(mcall'.msg)
     /\ ~(mcall'.resp \in Handles /\ msgNr \in DOMAIN responses)) =>
        /\ mcall'.res = "ok"
        /\ UNCHANGED sendVars
        /\ UNCHANGED handles
        /\ mcall'.resp \in Handles =>
              /\ mcall'.nr = msgNr
              /\ responses' = Put(responses, msgNr, mcall'.resp)
        /\ mcall'.resp = None => UNCHANGED <<responses, msgNr>>

\* C17: when the content of the message does not serialize, sendMessage
\* returns without raising, the router is as before (no producer in any
\* FIFO) and the response handle of the call is pending under the number
\* which the call took.
C17_SerializationFailure == [][C17_SerializationStep]_vars

\* Witness C17: a message with a response handle did not serialize while a
\* producer of an earlier message is queued; the handle is pending.
C17_Witness ==
    /\ mcall.op = "sendMessage"
    /\ mcall.branch = "unserializable"
    /\ mcall.resp \in Handles
    /\ mcall.nr \in DOMAIN responses
    /\ responses[mcall.nr] = mcall.resp
    /\ \E d \in DOMAIN fifos : fifos[d] # <<>>

\* C18 (as claimed): sendMessage with a message to this node itself, with or
\* without response handle, calls processMessage once, takes no message
\* number, leaves the pending table as it is and registers no producer.
C18_LoopbackUntouched ==
    [][(/\ mcall'.op = "sendMessage"
        /\ mcall'.resp \in {None} \cup Handles
        /\ mcall'.msg.dest = commID) =>
            /\ mcall'.processed = 1
            /\ mcall'.nr = NoNr
            /\ UNCHANGED <<msgNr, responses, fifos>>]_vars

\* One step of C18.
C18_LoopbackStep ==
    (/\ mcall'.op = "sendMessage"
     /\ mcall'.resp \in {None} \cup Handles
     /\ mcall'.msg.dest = commID) =>
        /\ mcall'.processed = 1
        /\ mcall'.nr = NoNr
        /\ UNCHANGED <<msgNr, connections, fifos, now>>
        /\ \A n \in DOMAIN responses' :
              n \in DOMAIN responses /\ responses'[n] = responses[n]
        /\ mcall'.msg.msgType \notin {STATUS, ERROR} =>
              UNCHANGED <<responses, handles>>
        /\ mcall'.msg.msgType \in {STATUS, ERROR} =>
              responses' = Drop(responses, NrOf(mcall'.msg.content))
        /\ mcall'.msg.msgType # ROUTE_INFO =>
              UNCHANGED <<routes, dest, default>>

\* C18 (amended): such a call calls processMessage once, takes no message
\* number, registers no producer and does not register its response handle;
\* the pending table changes only where the message is a status or error
\* message, whose processor removes the entry of the number it carries, and
\* the routing only where it is a routing message.
C18_LoopbackBypass == [][C18_LoopbackStep]_vars

\* Witness C18: a message to this node itself was processed; its response
\* handle is not pending, while another handle is, and a producer is queued.
C18_Witness ==
    /\ mcall.op = "sendMessage"
    /\ mcall.branch = "loopback"
    /\ mcall.resp \in Handles
    /\ \A n \in DOMAIN responses : responses[n] # mcall.resp
    /\ responses # EmptyMap
    /\ \E d \in DOMAIN fifos : fifos[d] # <<>>

\* C19 (as claimed): sendMessage with a response handle which is not a
\* Deferred, or with a Deferred which has been called, raises InternalError
\* and changes nothing: no message number is taken, the pending table is as
\* before, no producer is queued and no message is processed.
C19_InvalidHandleRejected ==
    [][(/\ mcall'.op = "sendMessage"
        /\ \/ mcall'.resp = Junk
           \/ mcall'.resp \in Handles /\ handles[mcall'.resp] # NoResult) =>
            /\ mcall'.res = "InternalError"
            /\ mcall'.nr = NoNr
            /\ mcall'.processed = 0
            /\ UNCHANGED <<msgNr, responses, handles>>
            /\ UNCHANGED sendVars]_vars

\* The routing: the table, the served sets and the default route.
routingVars == <<routes, dest, default>>

\* The step is the processing of a routing message.
RouteStep ==
    /\ call'.op = "updateRoutingInfo"
    /\ mcall'.op = "processMessage"
    /\ mcall'.msg.msgType = ROUTE_INFO

\* C11 (as claimed): a routing message of a connected neighbour with a
\* single change which repeats the message processed right before changes
\* nothing of the routing and does not raise, and the removal of a
\* destination which has no entry in the routing table changes nothing.
C11_Idempotent ==
    [][/\ (/\ RouteStep
           /\ Len(mcall'.msg.content) = 1
           /\ mcall.op = "processMessage"
           /\ mcall.msg = mcall'.msg
           /\ call.op = "updateRoutingInfo") =>
              /\ mcall'.res = "ok"
              /\ UNCHANGED routingVars
       /\ (/\ RouteStep
           /\ \E d \in Addr : /\ d \notin DOMAIN routes
                              /\ mcall'.msg.content = <<<<d, FALSE>>>>) =>
              /\ mcall'.res = "ok"
              /\ UNCHANGED routingVars]_vars

\* C12 (as claimed): for every next hop R with a served set and every
\* destination D, D is in the served set of R exactly when the routing
\* table maps D to R.
C12_MapsAgree ==
    \A r \in DOMAIN dest, d \in Addr :
        d \in dest[r] <=> (d \in DOMAIN routes /\ routes[d] = r)

\* C13 (as claimed): a routing message from R which removes D while D is
\* routed via another next hop leaves the entry of D and the served set of
\* that next hop as they are.
C13_RemoveOnlyOwnEntry ==
    [][RouteStep =>
            \A d \in DOMAIN routes :
                (/\ routes[d] # mcall'.msg.origin
                 /\ <<d, FALSE>> \in Range(mcall'.msg.content)) =>
                    /\ d \in DOMAIN routes'
                    /\ routes'[d] = routes[d]
                    /\ routes[d] \in DOMAIN dest =>
                          dest'[routes[d]] = dest[routes[d]]]_vars

\* One step of C20.
C20_CleanStep ==
    /\ DOMAIN fifos \subseteq DOMAIN fifos'
    /\ call'.op = "clean" =>
          /\ DOMAIN fifos' = DOMAIN fifos
          /\ \A d \in DOMAIN fifos :
                /\ Range(fifos'[d]) =
                      { e \in Range(fifos[d]) : now - e.ts <= MSG_QUEUE_TIMEOUT }
                /\ \A i, j \in 1..Len(fifos'[d]) :
                      i < j => fifos'[d][i].ts < fifos'[d][j].ts
          /\ UNCHANGED <<connections, routes, dest, default>>

NextHopOf(d) ==
    IF d \in DOMAIN routes THEN routes[d]
    ELSE IF d \notin DEFAULT_EXCEMPT_ADDRS THEN default
    ELSE None

\* One step of C23.
C23_NudgeStep ==
    /\ (call'.op = "registerProducer" /\ validateAddress(call'.arg)) =>
          LET r == NextHopOf(call'.arg) IN
          (r # None /\ r \in DOMAIN connections) => call'.nudged = {r}
    /\ (call'.op = "registerConnection" /\ call'.res = "ok") =>
          /\ call'.arg \in DOMAIN connections'
          /\ call'.nudged = {call'.arg}

\* C23: an accepted producer is followed by a requestSend on the connection
\* of the next hop of its destination: registerProducer calls requestSend
\* on that connection if it is registered, and every registerConnection
\* which registers a connection calls requestSend on it, so that the
\* producers queued before are asked for.
C23_ProducerNudges == [][C23_NudgeStep]_vars

\* Witness C23: producers for A, which is routed via R1, were queued while
\* R1 had no connection; the connection of R1 is registered and nudged.
C23_Witness ==
    /\ call.op = "registerConnection"
    /\ call.res = "ok"
    /\ call.nudged = {call.arg}
    /\ "A" \in DOMAIN routes
    /\ routes["A"] = call.arg
    /\ "A" \in DOMAIN fifos
    /\ fifos["A"] # <<>>

\* One step of C24.
C24_ReconnectStep ==
    /\ call'.op = "unregisterConnection" => fifos' = fifos
    /\ (call'.op = "registerConnection" /\ call'.arg \in DOMAIN fifos) =>
          fifos' = fifos
    /\ (/\ call'.op = "registerProducer"
        /\ validateAddress(call'.arg)
        /\ call'.arg \notin DOMAIN connections) =>
          fifos'[call'.arg] = Append(FifoOf(fifos, call'.arg), call'.p)
    /\ (/\ call'.op = "getNextProducer"
        /\ call'.res # "KeyError"
        /\ call'.dropped = {}
        /\ call'.arg \in DOMAIN routes
        /\ routes[call'.arg] = call'.arg
        /\ FifoOf(fifos, call'.arg) # <<>>) =>
          /\ call'.res = "producer"
          /\ call'.from = call'.arg =>
                /\ call'.p = Head(fifos[call'.arg])
                /\ fifos'[call'.arg] = Tail(fifos[call'.arg])
          /\ call'.from # call'.arg => fifos'[call'.arg] = fifos[call'.arg]

\* C24: the producers of a destination D survive a disconnect and a
\* reconnect: unregisterConnection leaves every FIFO as it is, a producer
\* registered while D has no connection is appended to the FIFO of D,
\* registerConnection keeps a FIFO which is there, and getNextProducer(D),
\* where it drops no loop-back entry, returns a producer while the FIFO of D
\* holds one and takes the producers of D from the head of the FIFO.
C24_SurvivesReconnect == [][C24_ReconnectStep]_vars

\* Witness C24: the second Protocol instance of R1 is registered while the
\* FIFO of R1 holds two producers of the time before.
C24_Witness ==
    /\ call.op = "registerConnection"
    /\ call.res = "ok"
    /\ call.conn = 2
    /\ Len(fifos[call.arg]) >= 2

\* C25 (as claimed): unregisterConnection of a Protocol instance which is
\* not the registered one of its endpoint (its registration was rejected as
\* a duplicate) leaves the registered connection as it is.
C25_UnregisterOnlyOwn ==
    [][(/\ call'.op = "unregisterConnection"
        /\ call'.arg \in DOMAIN connections
        /\ connections[call'.arg] # call'.conn) =>
            connections' = connections]_vars

\* The destinations a list of changes adds and does not remove again.
AddedBy(changes) ==
    { d \in Addr :
        \E i \in 1..Len(changes) :
            /\ changes[i] = <<d, TRUE>>
            /\ \A j \in (i+1)..Len(changes) : changes[j][1] # d }

\* C26 (as claimed): the processing of a routing message does not raise and
\* installs every destination the message adds under the origin of the
\* message, whether or not a connection of the origin was ever registered.
C26_InstallsForAnyRoute ==
    [][RouteStep =>
         /\ mcall'.res = "ok"
         /\ \A d \in AddedBy(mcall'.msg.content) :
               /\ d \in DOMAIN routes'
               /\ routes'[d] = mcall'.msg.origin
               /\ mcall'.msg.origin \in DOMAIN dest'
               /\ d \in dest'[mcall'.msg.origin]]_vars

\* The step hands a STATUS or ERROR message to processMessage whose content
\* is what the codec decodes.
DecodedStep ==
    /\ mcall'.op = "processMessage"
    /\ mcall'.msg.msgType \in {STATUS, ERROR}
    /\ \E buf \in Bufs : mcall'.msg.content = deserialize(buf)

\* C22 (as claimed): a STATUS or ERROR message whose content the codec has
\* decoded and whose correlation number is the number of a pending Deferred
\* which has not been called does not raise in processMessage and resolves
\* that Deferred, by callback for STATUS and by errback for ERROR.
C22_DecodedResolves ==
    [][(/\ DecodedStep
        /\ mcall'.msg.msgType \in processors
        /\ mcall'.msg.content.id \in DOMAIN responses
        /\ handles[responses[mcall'.msg.content.id]] = NoResult) =>
          LET d == responses[mcall'.msg.content.id] IN
          /\ mcall'.res = "ok"
          /\ handles'[d] =
                Result(IF mcall'.msg.msgType = STATUS THEN "callback"
                       ELSE "errback", mcall'.msg.content.msg)
          /\ mcall'.msg.content.id \notin DOMAIN responses']_vars

\* The manager has been shut down.
IsShutDown == contentSerializer = {} /\ processors = {}

\* One step of C21.
C21_ShutdownStep ==
    /\ mcall'.op = "shutdown" =>
          /\ mcall'.res = "ok"
          /\ contentSerializer' = {}
          /\ processors' = {}
          /\ responses' = EmptyMap
          /\ UNCHANGED <<connections, fifos, routes, dest, default>>
          /\ UNCHANGED handles
          /\ (IsShutDown /\ responses = EmptyMap) =>
                UNCHANGED <<msgNr, msgNrLock, regVars, responses>>
    /\ (IsShutDown /\ mcall'.op = "processMessage") =>
          /\ mcall'.res = "ok"
          /\ UNCHANGED <<handles, responses>>

\* C21: shutdown leaves the two registries and the pending table empty and
\* the router as it is and does not raise, a second shutdown changes
\* nothing more, and a STATUS or ERROR message which arrives after the
\* shutdown calls no Deferred, so that a Deferred which was pending at the
\* shutdown is not resolved by it.
C21_ShutdownClears == [][C21_ShutdownStep]_vars

\* Witness C21: a Deferred was registered under the number 0 and was
\* pending at the shutdown (no Deferred has been called, and the table is
\* empty); the STATUS message for the number 0 arrives after the shutdown.
C21_Witness ==
    /\ IsShutDown
    /\ responses = EmptyMap
    /\ msgNr = 1
    /\ \A d \in Handles : handles[d] = NoResult
    /\ mcall.op = "processMessage"
    /\ mcall.msg.msgType = STATUS
    /\ mcall.msg.content = [nr |-> 0, msg |-> "v"]

\* C27 (as claimed): the remote call of a container is dispatched at most
\* once and no Deferred of getAddress fires twice; once the remote call has
\* completed, every Deferred which getAddress has returned has fired with
\* its result (the call is not dispatched again, so a Deferred which has
\* not fired by then never fires).
C27_FiredOnce ==
    /\ \A c \in Containers : remote[c].sent <= 1
    /\ \A i \in DOMAIN deferreds :
          /\ deferreds[i].fired <= 1
          /\ remote[deferreds[i].of].state = "done" =>
                /\ deferreds[i].fired = 1
                /\ deferreds[i].result = address[deferreds[i].of]

====
